---- MODULE Spec2Model ----
(***************************************************************************)
(* The drawing component of src/src/component/Drawing.tsx as a state       *)
(* machine: the React state of DrawingApp, one action per event handler.   *)
(* A handler runs to completion on the state of the render it was created  *)
(* in, and its state updates are applied together before the next handler  *)
(* runs, so every handler is one atomic step.                              *)
(*                                                                         *)
(* uuidv4() is modelled as a counter: every call returns an identifier     *)
(* that no earlier call returned.  Coordinates and sizes are integers and  *)
(* scale factors are fractions, chosen so that every product the handlers  *)
(* compute within the bounds is an integer or lies below 5.  The renderer  *)
(* (react-konva) is not part of the component: its callbacks are the       *)
(* actions' inputs.                                                        *)
(***************************************************************************)
EXTENDS Integers, Sequences, FiniteSets, TLC

(* ------------------------------ bounds --------------------------------- *)

\* how many identifiers uuidv4 hands out in one run
MaxIds == 2

\* how many snapshots the undo stack holds before the run stops editing
MaxHist == 2

\* how many times the control panel changes the tool configuration in one run
MaxToolChanges == 1

(* ------------------------------ inputs --------------------------------- *)

\* stage.getPointerPosition(), e.target.x()/y(), node.x()/y()
Points == {[x |-> 0, y |-> 0], [x |-> 10, y |-> 50]}

\* node.scaleX(), node.scaleY() as exact fractions n/d (d > 0): negative, zero,
\* shrinking and growing
Scales == {[n |-> -1, d |-> 1], [n |-> 0, d |-> 1], [n |-> 1, d |-> 100], [n |-> 2, d |-> 1]}

ShapeTypes == {"rectangle", "circle", "line"}

StrokeColors == {"#000000", "#ff0000"}

\* parseInt(e.target.value) of the number input, for two numbers typed into it
StrokeWidths == {2, 7}

DashStyles == {"solid", "dashed"}

FillColors == {"#f0f0f0", "#00ff00"}

\* null, and a value that is not null
Null == <<>>

Some(v) == <<v>>

(* ------------------------------- state --------------------------------- *)

VARIABLES
  shapes,       \* useState<Shape[]>: the live collection
  selectedId,   \* useState<string | null>
  drawingType,  \* useState<ShapeType>
  lineStart,    \* useState<{x, y} | null>: the pending first line click
  strokeColor,
  strokeWidth,
  dashStyle,
  fillColor,
  history,      \* useState<Shape[][]>: the undo stack, top last
  redoStack,    \* useState<Shape[][]>: the redo stack, top last
  nextId,       \* the identifiers uuidv4 has handed out are 1 .. nextId - 1
  toolChanges,  \* how many times the control panel has changed the configuration
  last,         \* history variable: the handler that ran last, its arguments
                \* (pt: the reported position, then the scale factors of a
                \* transform), the state it ran on and the run of undos and
                \* redos it is part of
  rt            \* history variable: progress of an edit, undo, redo sequence

\* the tool configuration, with the count of its changes
tool == <<drawingType, strokeColor, strokeWidth, dashStyle, fillColor, toolChanges>>

vars == <<shapes, selectedId, drawingType, lineStart, strokeColor, strokeWidth,
          dashStyle, fillColor, history, redoStack, nextId, toolChanges, last, rt>>

(* ------------------------------ helpers -------------------------------- *)

IdSet(c) == {c[i].id : i \in DOMAIN c}

\* every identifier handed out so far
Issued == 1 .. (nextId - 1)

\* history.slice(0, -1), redoStack.slice(0, -1)
ButLast(s) == SubSeq(s, 1, Len(s) - 1)

\* { ...shape, ...updatedProps }
Spread(shape, updatedProps) ==
  [k \in DOMAIN shape \cup DOMAIN updatedProps |->
     IF k \in DOMAIN updatedProps THEN updatedProps[k] ELSE shape[k]]

\* dim * scale with nothing keeping it from falling below 5
MaxFive_unclamped(dim, s) == (dim * s.n) \div s.d

\* Math.max(5, dim * scale), scale = s.n / s.d: 5 when dim * n / d < 5
MaxFive(dim, s) ==
  IF dim * s.n < 5 * s.d THEN 5 ELSE (dim * s.n) \div s.d

\* dashStyle === 'dashed' ? [10, 5] : []
dashArray == IF dashStyle = "dashed" THEN <<10, 5>> ELSE <<>>

\* the state a handler runs on, kept in `last`
Snapshot ==
  [shapes |-> shapes, selectedId |-> selectedId, lineStart |-> lineStart,
   history |-> history, redoStack |-> redoStack]

\* last.run: progress of a run of undos that empties the undo stack and of the
\* redos that follow it at once. stage 1 while undoing and 2 while redoing, F
\* the collection the first undo found, k the entries the undo stack held
\* then, n the undos (stage 1) or the redos (stage 2) done so far
NoRun == [stage |-> 0, F |-> <<>>, k |-> 0, n |-> 0]

Run(op) ==
  LET r == last.run IN
  IF op = "undoLast"
  THEN IF history = <<>> THEN NoRun
       ELSE IF r.stage = 1 THEN [r EXCEPT !.n = r.n + 1]
       ELSE [stage |-> 1, F |-> shapes, k |-> Len(history), n |-> 1]
  ELSE IF op = "redoLast"
  THEN IF r.stage = 1 /\ r.n = r.k THEN [r EXCEPT !.stage = 2, !.n = 1]
       ELSE IF r.stage = 2 /\ r.n < r.k THEN [r EXCEPT !.n = r.n + 1]
       ELSE NoRun
  ELSE NoRun

Ran(op, id, pt) ==
  last' = [op |-> op, id |-> id, pt |-> pt, pre |-> Snapshot, run |-> Run(op)]

\* rt.phase: 1 after an edit (S0 the collection before it, S1 after it, undone
\* whether the edit came right after an undo that took effect), 2 after the
\* undo that follows the edit at once, 3 after the redo that follows that undo
\* at once, 4 after a redo that follows at once an edit made right after an undo
NoRoundTrip == [phase |-> 0, S0 |-> <<>>, S1 |-> <<>>, undone |-> FALSE]

\* a handler that recorded a snapshot starts an edit, undo, redo sequence
Edited ==
  rt' = [phase |-> 1, S0 |-> shapes, S1 |-> shapes',
         undone |-> (last.op = "undoLast" /\ last.pre.history # <<>>)]

NotEdited == rt' = NoRoundTrip

(* ----------------------------- handlers -------------------------------- *)

\* pushToHistory without setRedoStack([])
pushToHistory_keepsRedo ==
  /\ history' = Append(history, shapes)
  /\ UNCHANGED redoStack

\* setHistory((prev) => [...prev, shapes]); setRedoStack([])
pushToHistory ==
  /\ history' = Append(history, shapes)
  /\ redoStack' = <<>>

\* newLine with the two end points exchanged
newLine_reversed(id, pointer) ==
  [id |-> id, type |-> "line", stroke |-> strokeColor, strokeWidth |-> strokeWidth,
   dash |-> dashArray, draggable |-> TRUE, isSelected |-> FALSE,
   points |-> <<pointer.x, pointer.y, lineStart[1].x, lineStart[1].y>>]

newLine(id, pointer) ==
  [id |-> id, type |-> "line", stroke |-> strokeColor, strokeWidth |-> strokeWidth,
   dash |-> dashArray, draggable |-> TRUE, isSelected |-> FALSE,
   points |-> <<lineStart[1].x, lineStart[1].y, pointer.x, pointer.y>>]

\* newShape with the stroke of the initial configuration, not the current one
newShape_initialStroke(id, pointer) ==
  IF drawingType = "rectangle"
  THEN [id |-> id, stroke |-> "#000000", strokeWidth |-> strokeWidth,
        dash |-> dashArray, draggable |-> TRUE, isSelected |-> FALSE,
        type |-> "rectangle", x |-> pointer.x, y |-> pointer.y,
        width |-> 100, height |-> 60, fill |-> fillColor]
  ELSE [id |-> id, stroke |-> "#000000", strokeWidth |-> strokeWidth,
        dash |-> dashArray, draggable |-> TRUE, isSelected |-> FALSE,
        type |-> "circle", x |-> pointer.x, y |-> pointer.y,
        radius |-> 40, fill |-> fillColor]

newShape(id, pointer) ==
  IF drawingType = "rectangle"
  THEN [id |-> id, stroke |-> strokeColor, strokeWidth |-> strokeWidth,
        dash |-> dashArray, draggable |-> TRUE, isSelected |-> FALSE,
        type |-> "rectangle", x |-> pointer.x, y |-> pointer.y,
        width |-> 100, height |-> 60, fill |-> fillColor]
  ELSE [id |-> id, stroke |-> strokeColor, strokeWidth |-> strokeWidth,
        dash |-> dashArray, draggable |-> TRUE, isSelected |-> FALSE,
        type |-> "circle", x |-> pointer.x, y |-> pointer.y,
        radius |-> 40, fill |-> fillColor]

\* the run keeps editing while an identifier and room on the undo stack are left
CanCreate == nextId <= MaxIds /\ Len(history) < MaxHist

CanEdit == Len(history) < MaxHist

\* once MaxIds shapes are drawn, room for one more drag or transform on an
\* undo stack of MaxHist entries
CanEditDeep == Len(shapes) = MaxIds /\ Len(history) <= MaxHist

\* uuidv4 returning the identifier it returned the time before
uuidv4_repeats == IF nextId > 1 THEN nextId - 1 ELSE nextId

\* uuidv4(): an identifier no earlier call returned
uuidv4 == nextId

\* onMouseDown of the Stage
createShape(pointer) ==
  /\ IF pointer = Null
     THEN /\ Ran("createShape", Null, Null)
          /\ NotEdited
          /\ UNCHANGED <<shapes, selectedId, lineStart, history, redoStack, nextId>>
     ELSE IF drawingType = "line"
     THEN IF lineStart = Null
          THEN /\ lineStart' = Some(pointer[1])
               /\ Ran("createShape", Null, pointer)
               /\ NotEdited
               /\ UNCHANGED <<shapes, selectedId, history, redoStack, nextId>>
          ELSE /\ CanCreate
               /\ pushToHistory
               /\ shapes' = Append(shapes, newLine(uuidv4, pointer[1]))
               /\ lineStart' = Null
               /\ nextId' = nextId + 1
               /\ Ran("createShape", Some(uuidv4), pointer)
               /\ Edited
               /\ UNCHANGED selectedId
     ELSE /\ CanCreate
          /\ pushToHistory
          /\ shapes' = Append(shapes, newShape(uuidv4, pointer[1]))
          /\ selectedId' = Some(uuidv4)
          /\ nextId' = nextId + 1
          /\ Ran("createShape", Some(uuidv4), pointer)
          /\ Edited
          /\ UNCHANGED lineStart
  /\ UNCHANGED tool

\* selectMap that sets the flag of the clicked shape and leaves the others' alone
selectMap_keepsOthers(prev, id) ==
  [i \in DOMAIN prev |->
     Spread(prev[i], [isSelected |-> (prev[i].isSelected \/ prev[i].id = id)])]

\* prev.map((shape) => ({ ...shape, isSelected: shape.id === id }))
selectMap(prev, id) ==
  [i \in DOMAIN prev |-> Spread(prev[i], [isSelected |-> (prev[i].id = id)])]

\* handleSelect that records a snapshot, as the editing handlers do
handleSelect_recordsSnapshot(id) ==
  /\ CanEdit
  /\ pushToHistory
  /\ selectedId' = Some(id)
  /\ shapes' = selectMap(shapes, id)
  /\ Ran("handleSelect", Some(id), Null)
  /\ NotEdited
  /\ UNCHANGED <<lineStart, nextId, tool>>

\* handleSelect that writes the flag into the shape objects in place, so that
\* the snapshots holding these objects show the new flags too
handleSelect_inPlace(id) ==
  /\ selectedId' = Some(id)
  /\ shapes' = selectMap(shapes, id)
  /\ history' = [k \in DOMAIN history |-> selectMap(history[k], id)]
  /\ redoStack' = [k \in DOMAIN redoStack |-> selectMap(redoStack[k], id)]
  /\ Ran("handleSelect", Some(id), Null)
  /\ NotEdited
  /\ UNCHANGED <<lineStart, nextId, tool>>

\* onClick of a shape. The shapes of the current render pass their own id; a
\* caller holding the id of a shape that undo has removed passes an absent one.
handleSelect(id) ==
  /\ selectedId' = Some(id)
  /\ shapes' = selectMap(shapes, id)
  /\ Ran("handleSelect", Some(id), Null)
  /\ NotEdited
  /\ UNCHANGED <<lineStart, history, redoStack, nextId, tool>>

\* updateMap that spreads the update into every shape
updateMap_all(prev, id, updatedProps) ==
  [i \in DOMAIN prev |-> Spread(prev[i], updatedProps)]

\* prev.map((shape) => shape.id === id ? { ...shape, ...updatedProps } : shape)
updateMap(prev, id, updatedProps) ==
  [i \in DOMAIN prev |->
     IF prev[i].id = id THEN Spread(prev[i], updatedProps) ELSE prev[i]]

updateShape(id, updatedProps) ==
  /\ pushToHistory
  /\ shapes' = updateMap(shapes, id, updatedProps)
  /\ Edited
  /\ UNCHANGED <<selectedId, lineStart, nextId, tool>>

\* onTransformEnd of a Rect
rectTransformPatch(shape, node, scaleX, scaleY) ==
  [x |-> node.x, y |-> node.y,
   width |-> MaxFive(shape.width, scaleX), height |-> MaxFive(shape.height, scaleY)]

\* onTransformEnd of a Circle
circleTransformPatch(shape, node, scale) ==
  [x |-> node.x, y |-> node.y, radius |-> MaxFive(shape.radius, scale)]

\* onDragEnd of a Rect or a Circle
dragPatch(target) == [x |-> target.x, y |-> target.y]

\* lineDragPatch that moves the first end point only
lineDragPatch_firstPointOnly(shape, target) ==
  [points |-> <<target.x, target.y, shape.points[3], shape.points[4]>>]

\* onDragEnd of a Line
lineDragPatch(shape, target) ==
  LET x1 == shape.points[1]
      y1 == shape.points[2]
      x2 == shape.points[3]
      y2 == shape.points[4]
      dx == target.x - x1
      dy == target.y - y1
  IN  [points |-> <<x1 + dx, y1 + dy, x2 + dx, y2 + dy>>]

RectTransformEnd(i, node, scaleX, scaleY) ==
  /\ shapes[i].type = "rectangle"
  /\ updateShape(shapes[i].id, rectTransformPatch(shapes[i], node, scaleX, scaleY))
  /\ Ran("transformEnd", Some(shapes[i].id), <<node, scaleX, scaleY>>)

CircleTransformEnd(i, node, scale) ==
  /\ shapes[i].type = "circle"
  /\ updateShape(shapes[i].id, circleTransformPatch(shapes[i], node, scale))
  /\ Ran("transformEnd", Some(shapes[i].id), <<node, scale>>)

DragEnd(i, target) ==
  /\ shapes[i].type \in {"rectangle", "circle"}
  /\ updateShape(shapes[i].id, dragPatch(target))
  /\ Ran("dragEnd", Some(shapes[i].id), Some(target))

LineDragEnd(i, target) ==
  /\ shapes[i].type = "line"
  /\ updateShape(shapes[i].id, lineDragPatch(shapes[i], target))
  /\ Ran("dragEnd", Some(shapes[i].id), Some(target))

\* updateShape reached with the id of a shape that is no longer in the
\* collection (a drag of a shape that an undo has removed)
AbsentDragEnd(id, target) ==
  /\ id \notin IdSet(shapes)
  /\ updateShape(id, dragPatch(target))
  /\ Ran("dragEnd", Some(id), Some(target))

\* the bottom of the stack, stack[0], taken for its top
Top_first(stack) == IF Len(stack) = 0 THEN Null ELSE Some(stack[1])

\* history[history.length - 1], redoStack[redoStack.length - 1]; undefined is Null
Top(stack) == IF Len(stack) = 0 THEN Null ELSE Some(stack[Len(stack)])

\* undoLast without the test of prev
undoLast_unguarded ==
  /\ redoStack' = Append(redoStack, shapes)
  /\ shapes' = IF history = <<>> THEN <<>> ELSE history[Len(history)]
  /\ history' = ButLast(history)
  /\ rt' = IF rt.phase = 1 THEN [rt EXCEPT !.phase = 2] ELSE NoRoundTrip
  /\ Ran("undoLast", Null, Null)
  /\ UNCHANGED <<selectedId, lineStart, nextId, tool>>

undoLast ==
  LET prev == Top(history) IN
  /\ IF prev # Null
     THEN /\ redoStack' = Append(redoStack, shapes)
          /\ shapes' = prev[1]
          /\ history' = ButLast(history)
     ELSE UNCHANGED <<shapes, history, redoStack>>
  /\ rt' = IF rt.phase = 1 THEN [rt EXCEPT !.phase = 2] ELSE NoRoundTrip
  /\ Ran("undoLast", Null, Null)
  /\ UNCHANGED <<selectedId, lineStart, nextId, tool>>

\* redoLast without setHistory((h) => [...h, shapes])
redoLast_dropsCurrent ==
  LET next == Top(redoStack) IN
  /\ IF next # Null
     THEN /\ shapes' = next[1]
          /\ redoStack' = ButLast(redoStack)
          /\ UNCHANGED history
     ELSE UNCHANGED <<shapes, history, redoStack>>
  /\ rt' = IF rt.phase = 2 THEN [rt EXCEPT !.phase = 3]
           ELSE IF rt.phase = 1 /\ rt.undone THEN [rt EXCEPT !.phase = 4]
           ELSE NoRoundTrip
  /\ Ran("redoLast", Null, Null)
  /\ UNCHANGED <<selectedId, lineStart, nextId, tool>>

redoLast ==
  LET next == Top(redoStack) IN
  /\ IF next # Null
     THEN /\ history' = Append(history, shapes)
          /\ shapes' = next[1]
          /\ redoStack' = ButLast(redoStack)
     ELSE UNCHANGED <<shapes, history, redoStack>>
  /\ rt' = IF rt.phase = 2 THEN [rt EXCEPT !.phase = 3]
           ELSE IF rt.phase = 1 /\ rt.undone THEN [rt EXCEPT !.phase = 4]
           ELSE NoRoundTrip
  /\ Ran("redoLast", Null, Null)
  /\ UNCHANGED <<selectedId, lineStart, nextId, tool>>

\* the control panel is used while the run's budget of changes lasts
Changed == toolChanges < MaxToolChanges /\ toolChanges' = toolChanges + 1

\* the onChange handlers of the control panel
setDrawingType(t) ==
  /\ t # drawingType
  /\ drawingType' = t
  /\ Ran("setDrawingType", Null, Null)
  /\ NotEdited
  /\ UNCHANGED <<shapes, selectedId, lineStart, history, redoStack, nextId,
                 strokeColor, strokeWidth, dashStyle, fillColor>>
  /\ Changed

\* a stroke color change that also restrokes the shapes already drawn
setStrokeColor_retroactive(c) ==
  /\ c # strokeColor
  /\ strokeColor' = c
  /\ shapes' = [i \in DOMAIN shapes |-> [shapes[i] EXCEPT !.stroke = c]]
  /\ Ran("setStrokeColor", Null, Null)
  /\ NotEdited
  /\ UNCHANGED <<selectedId, lineStart, history, redoStack, nextId,
                 drawingType, strokeWidth, dashStyle, fillColor>>
  /\ Changed

setStrokeColor(c) ==
  /\ c # strokeColor
  /\ strokeColor' = c
  /\ Ran("setStrokeColor", Null, Null)
  /\ NotEdited
  /\ UNCHANGED <<shapes, selectedId, lineStart, history, redoStack, nextId,
                 drawingType, strokeWidth, dashStyle, fillColor>>
  /\ Changed

setStrokeWidth(w) ==
  /\ w # strokeWidth
  /\ strokeWidth' = w
  /\ Ran("setStrokeWidth", Null, Null)
  /\ NotEdited
  /\ UNCHANGED <<shapes, selectedId, lineStart, history, redoStack, nextId,
                 drawingType, strokeColor, dashStyle, fillColor>>
  /\ Changed

setDashStyle(d) ==
  /\ d # dashStyle
  /\ dashStyle' = d
  /\ Ran("setDashStyle", Null, Null)
  /\ NotEdited
  /\ UNCHANGED <<shapes, selectedId, lineStart, history, redoStack, nextId,
                 drawingType, strokeColor, strokeWidth, fillColor>>
  /\ Changed

setFillColor(c) ==
  /\ c # fillColor
  /\ fillColor' = c
  /\ Ran("setFillColor", Null, Null)
  /\ NotEdited
  /\ UNCHANGED <<shapes, selectedId, lineStart, history, redoStack, nextId,
                 drawingType, strokeColor, strokeWidth, dashStyle>>
  /\ Changed

Init ==
  /\ shapes = <<>>
  /\ selectedId = Null
  /\ drawingType = "rectangle"
  /\ lineStart = Null
  /\ strokeColor = "#000000"
  /\ strokeWidth = 2
  /\ dashStyle = "solid"
  /\ fillColor = "#f0f0f0"
  /\ history = <<>>
  /\ redoStack = <<>>
  /\ nextId = 1
  /\ toolChanges = 0
  /\ last = [op |-> "init", id |-> Null, pt |-> Null, pre |-> Snapshot,
             run |-> NoRun]
  /\ rt = NoRoundTrip

Next ==
  \/ \E pointer \in {Null} \cup {Some(p) : p \in Points} : createShape(pointer)
  \/ \E id \in Issued : handleSelect(id)
  \/ CanEdit /\ \E i \in DOMAIN shapes, node \in Points, scaleX, scaleY \in Scales :
       RectTransformEnd(i, node, scaleX, scaleY)
  \/ CanEdit /\ \E i \in DOMAIN shapes, node \in Points, scale \in Scales :
       CircleTransformEnd(i, node, scale)
  \/ CanEdit /\ \E i \in DOMAIN shapes, target \in Points : DragEnd(i, target)
  \/ CanEdit /\ \E i \in DOMAIN shapes, target \in Points : LineDragEnd(i, target)
  \/ CanEdit /\ \E id \in Issued, target \in Points : AbsentDragEnd(id, target)
  \/ undoLast
  \/ redoLast
  \/ \E t \in ShapeTypes : setDrawingType(t)
  \/ \E c \in StrokeColors : setStrokeColor(c)
  \/ \E w \in StrokeWidths : setStrokeWidth(w)
  \/ \E d \in DashStyles : setDashStyle(d)
  \/ \E c \in FillColors : setFillColor(c)

Spec == Init /\ [][Next]_vars

\* the gestures of a session that keeps one tool configuration but for the
\* shape kind, draws MaxIds shapes and then drags and resizes them, the
\* resizing with one factor for both axes
NextDeep ==
  \/ \E p \in Points : createShape(Some(p))
  \/ \E id \in IdSet(shapes) : handleSelect(id)
  \/ CanEditDeep /\ \E i \in DOMAIN shapes, node \in Points, scale \in Scales :
       RectTransformEnd(i, node, scale, scale)
  \/ CanEditDeep /\ \E i \in DOMAIN shapes, node \in Points, scale \in Scales :
       CircleTransformEnd(i, node, scale)
  \/ CanEditDeep /\ \E i \in DOMAIN shapes, target \in Points : DragEnd(i, target)
  \/ CanEditDeep /\ \E i \in DOMAIN shapes, target \in Points : LineDragEnd(i, target)
  \/ undoLast
  \/ redoLast
  \/ \E t \in ShapeTypes : setDrawingType(t)

SpecDeep == Init /\ [][NextDeep]_vars


(* ------------- the variant without history (part_000) ------------------ *)
(* The variant has the same state cells but for the two stacks, which stay *)
(* empty here, and no transform handler. The control panel is the same.    *)

\* onMouseDown of the Stage: no snapshot is recorded and no selection is made
createShapePlain(pointer) ==
  /\ IF pointer = Null
     THEN /\ Ran("createShape", Null, Null)
          /\ UNCHANGED <<shapes, lineStart, nextId>>
     ELSE IF drawingType = "line"
     THEN IF lineStart = Null
          THEN /\ lineStart' = Some(pointer[1])
               /\ Ran("createShape", Null, pointer)
               /\ UNCHANGED <<shapes, nextId>>
          ELSE /\ nextId <= MaxIds
               /\ shapes' = Append(shapes, newLine(uuidv4, pointer[1]))
               /\ lineStart' = Null
               /\ nextId' = nextId + 1
               /\ Ran("createShape", Some(uuidv4), pointer)
     ELSE /\ nextId <= MaxIds
          /\ shapes' = Append(shapes, newShape(uuidv4, pointer[1]))
          /\ nextId' = nextId + 1
          /\ Ran("createShape", Some(uuidv4), pointer)
          /\ UNCHANGED lineStart
  /\ NotEdited
  /\ UNCHANGED <<selectedId, history, redoStack, tool>>

\* onClick of a shape
handleSelectPlain(id) == handleSelect(id)

\* if (!selectedId) return; prev.map((shape) => shape.id === selectedId ? ...)
updateShapePlain(updatedShape) ==
  /\ IF selectedId = Null
     THEN UNCHANGED shapes
     ELSE shapes' = updateMap(shapes, selectedId[1], updatedShape)
  /\ NotEdited
  /\ UNCHANGED <<selectedId, lineStart, history, redoStack, nextId, tool>>

\* onDragEnd of a Rect or a Circle
DragEndPlain(i, target) ==
  /\ shapes[i].type \in {"rectangle", "circle"}
  /\ updateShapePlain(dragPatch(target))
  /\ Ran("dragEnd", Some(shapes[i].id), Some(target))

\* onDragEnd of a Line
LineDragEndPlain(i, target) ==
  /\ shapes[i].type = "line"
  /\ updateShapePlain(lineDragPatch(shapes[i], target))
  /\ Ran("dragEnd", Some(shapes[i].id), Some(target))

NextPlain ==
  \/ \E pointer \in {Null} \cup {Some(p) : p \in Points} : createShapePlain(pointer)
  \/ \E id \in IdSet(shapes) : handleSelectPlain(id)
  \/ \E i \in DOMAIN shapes, target \in Points : DragEndPlain(i, target)
  \/ \E i \in DOMAIN shapes, target \in Points : LineDragEndPlain(i, target)
  \/ \E t \in ShapeTypes : setDrawingType(t)
  \/ \E c \in StrokeColors : setStrokeColor(c)
  \/ \E w \in StrokeWidths : setStrokeWidth(w)
  \/ \E d \in DashStyles : setDashStyle(d)
  \/ \E c \in FillColors : setFillColor(c)

SpecPlain == Init /\ [][NextPlain]_vars

(* ------------------------------- claims -------------------------------- *)

Pre == last.pre

\* the handler that ran last recorded a snapshot: a rectangle, a circle or a
\* completed line was created, or a drag or a transform ended
IsEdit ==
  \/ last.op \in {"dragEnd", "transformEnd"}
  \/ last.op = "createShape" /\ last.id # Null

Selected(c) == {i \in DOMAIN c : c[i].isSelected}

\* C1: an undo right after an edit restores the collection the edit started
\* from, flags and order included, and a redo right after that undo restores
\* the collection the edit produced.
C1_UndoRedoRoundTrip ==
  /\ rt.phase = 2 => shapes = rt.S0
  /\ rt.phase = 3 => shapes = rt.S1

C1_Witness ==
  /\ rt.phase = 3
  /\ Len(rt.S0) = 1
  /\ rt.S1 # rt.S0
  /\ Selected(rt.S0) # {}

\* C2: after an edit the redo stack is empty, and a redo issued right after
\* an edit that followed an undo changes neither the collection nor a stack.
C2_RedoInvalidation ==
  /\ IsEdit => redoStack = <<>>
  /\ rt.phase = 4 =>
       /\ shapes = Pre.shapes
       /\ history = Pre.history
       /\ redoStack = Pre.redoStack

C2_Witness ==
  /\ rt.phase = 4
  /\ last.op = "redoLast"
  /\ shapes # <<>>

\* C3: at most one shape of the live collection has isSelected = TRUE.
C3_SelectionExclusivity == Cardinality(Selected(shapes)) <= 1

C3_Witness ==
  /\ last.op = "handleSelect"
  /\ Len(shapes) = 2
  /\ Selected(Pre.shapes) # {}
  /\ Selected(shapes) # {}
  /\ Selected(shapes) # Selected(Pre.shapes)

\* C4: right after a rectangle or a circle is created, the new shape has
\* isSelected = TRUE in the collection and every other shape has FALSE.
C4_CreatedShapeIsSelected ==
  (last.op = "createShape" /\ last.id # Null /\ drawingType # "line") =>
    /\ shapes[Len(shapes)].isSelected
    /\ \A i \in 1 .. (Len(shapes) - 1) : ~shapes[i].isSelected

\* C5: creating a rectangle or a circle at P appends one shape at the end, at
\* P, of the default size and with the current tool configuration; the shapes
\* that were there keep their place and their attributes.
C5_CreateAppendsDefaultShape ==
  (last.op = "createShape" /\ last.pt # Null /\ drawingType # "line") =>
    LET new == shapes[Len(shapes)]
        P == last.pt[1]
    IN  /\ Len(shapes) = Len(Pre.shapes) + 1
        /\ SubSeq(shapes, 1, Len(Pre.shapes)) = Pre.shapes
        /\ new.type = drawingType
        /\ new.x = P.x
        /\ new.y = P.y
        /\ new.type = "rectangle" => new.width = 100 /\ new.height = 60
        /\ new.type = "circle" => new.radius = 40
        /\ new.stroke = strokeColor
        /\ new.strokeWidth = strokeWidth
        /\ new.dash = (IF dashStyle = "dashed" THEN <<10, 5>> ELSE <<>>)
        /\ new.fill = fillColor

C5_Witness ==
  /\ last.op = "createShape"
  /\ last.pt # Null
  /\ drawingType # "line"
  /\ Len(shapes) = 2
  /\ toolChanges > 0
  /\ last.pt[1].x # last.pt[1].y

\* C6: with the line tool and no pending point a placement only records the
\* start point and leaves the collection and both stacks alone; the next
\* placement with the line tool appends one line from the start point to the
\* current point, pushes the collection it found as one undo entry and clears
\* the pending point.
C6_TwoPhaseLine ==
  (last.op = "createShape" /\ last.pt # Null /\ drawingType = "line") =>
    LET P == last.pt[1] IN
    IF Pre.lineStart = Null
    THEN /\ lineStart = Some(P)
         /\ shapes = Pre.shapes
         /\ history = Pre.history
         /\ redoStack = Pre.redoStack
    ELSE LET start == Pre.lineStart[1]
             new == shapes[Len(shapes)]
         IN  /\ Len(shapes) = Len(Pre.shapes) + 1
             /\ SubSeq(shapes, 1, Len(Pre.shapes)) = Pre.shapes
             /\ new.type = "line"
             /\ new.points = <<start.x, start.y, P.x, P.y>>
             /\ history = Append(Pre.history, Pre.shapes)
             /\ lineStart = Null

C6_Witness ==
  /\ last.op = "createShape"
  /\ drawingType = "line"
  /\ Pre.lineStart # Null
  /\ Len(shapes) = 2
  /\ Pre.lineStart # last.pt
  /\ Pre.lineStart[1].x # Pre.lineStart[1].y

\* C7: selecting an id that is in the collection sets isSelected on that shape
\* and clears it on the others, changes nothing else of any shape nor the
\* order, and leaves the undo stack and the redo stack as they were.
C7_SelectFrame ==
  (last.op = "handleSelect" /\ last.id[1] \in IdSet(Pre.shapes)) =>
    /\ Len(shapes) = Len(Pre.shapes)
    /\ \A i \in DOMAIN shapes :
         /\ shapes[i].isSelected = (Pre.shapes[i].id = last.id[1])
         /\ DOMAIN shapes[i] = DOMAIN Pre.shapes[i]
         /\ \A k \in DOMAIN shapes[i] \ {"isSelected"} : shapes[i][k] = Pre.shapes[i][k]
    /\ history = Pre.history
    /\ redoStack = Pre.redoStack

C7_Witness ==
  /\ last.op = "handleSelect"
  /\ last.id[1] \in IdSet(Pre.shapes)
  /\ Len(shapes) = 2
  /\ Selected(Pre.shapes) # {}
  /\ Selected(Pre.shapes) # Selected(shapes)
  /\ history # <<>>

\* C8: updateShape with an id that is not in the collection changes nothing:
\* not the collection, not the undo stack, not the redo stack.
C8_AbsentUpdateIsNoOp ==
  (last.op \in {"dragEnd", "transformEnd"} /\ last.id[1] \notin IdSet(Pre.shapes)) =>
    /\ shapes = Pre.shapes
    /\ history = Pre.history
    /\ redoStack = Pre.redoStack

\* C9: selecting an id that is not in the collection leaves every isSelected
\* flag and the current selection as they were.
C9_AbsentSelectIsNoOp ==
  (last.op = "handleSelect" /\ last.id[1] \notin IdSet(Pre.shapes)) =>
    /\ shapes = Pre.shapes
    /\ selectedId = Pre.selectedId

\* C10: undo on an empty undo stack, and redo on an empty redo stack, leave
\* the collection, the undo stack and the redo stack as they were.
C10_EmptyStackNoOp ==
  ((last.op = "undoLast" /\ Pre.history = <<>>)
     \/ (last.op = "redoLast" /\ Pre.redoStack = <<>>)) =>
    /\ shapes = Pre.shapes
    /\ history = Pre.history
    /\ redoStack = Pre.redoStack

C10_Witness ==
  /\ last.op = "undoLast"
  /\ Pre.history = <<>>
  /\ Pre.redoStack # <<>>

\* the shape of collection c that carries the id
ShapeOf(c, id) == c[CHOOSE i \in DOMAIN c : c[i].id = id]

\* new = max(5, old * scale) for the scale s.n / s.d, in exact arithmetic
IsMaxFive(new, old, s) ==
  IF old * s.n >= 5 * s.d THEN new * s.d = old * s.n ELSE new = 5

\* every rectangle of c is at least 5 wide and 5 high, every circle has a
\* radius of at least 5
SizesAtLeastFive(c) ==
  \A i \in DOMAIN c :
    /\ c[i].type = "rectangle" => c[i].width >= 5 /\ c[i].height >= 5
    /\ c[i].type = "circle" => c[i].radius >= 5

\* C11: a transform-end stores width = max(5, width * scaleX) and
\* height = max(5, height * scaleY) on a rectangle and radius =
\* max(5, radius * scale) on a circle, whatever the sign of the scale; so no
\* rectangle or circle of the live collection or of a snapshot is smaller
\* than 5 in a dimension.
C11_MinimumSizeClamp ==
  /\ (last.op = "transformEnd" /\ last.id[1] \in IdSet(Pre.shapes)) =>
       LET old == ShapeOf(Pre.shapes, last.id[1])
           new == ShapeOf(shapes, last.id[1])
       IN  /\ old.type = "rectangle" =>
                /\ IsMaxFive(new.width, old.width, last.pt[2])
                /\ IsMaxFive(new.height, old.height, last.pt[3])
           /\ old.type = "circle" => IsMaxFive(new.radius, old.radius, last.pt[2])
  /\ SizesAtLeastFive(shapes)
  /\ \A k \in DOMAIN history : SizesAtLeastFive(history[k])
  /\ \A k \in DOMAIN redoStack : SizesAtLeastFive(redoStack[k])

C11_Witness ==
  /\ last.op = "transformEnd"
  /\ ShapeOf(Pre.shapes, last.id[1]).type = "rectangle"
  /\ last.pt[2].n < 0
  /\ last.pt[3].n = 2
  /\ ShapeOf(shapes, last.id[1]).width = 5
  /\ ShapeOf(shapes, last.id[1]).height = 120

\* C12: a drag-end on a line that reports the position (nx, ny) stores the
\* points moved by dx = nx - x1 and dy = ny - y1, both end points alike, so
\* x2 - x1 and y2 - y1 stay what they were, and it pushes one undo entry.
C12_RigidLineTranslation ==
  (last.op = "dragEnd" /\ last.id[1] \in IdSet(Pre.shapes)
     /\ ShapeOf(Pre.shapes, last.id[1]).type = "line") =>
    LET old == ShapeOf(Pre.shapes, last.id[1]).points
        new == ShapeOf(shapes, last.id[1]).points
        dx == last.pt[1].x - old[1]
        dy == last.pt[1].y - old[2]
    IN  /\ new = <<old[1] + dx, old[2] + dy, old[3] + dx, old[4] + dy>>
        /\ new[3] - new[1] = old[3] - old[1]
        /\ new[4] - new[2] = old[4] - old[2]
        /\ history = Append(Pre.history, Pre.shapes)

C12_Witness ==
  /\ last.op = "dragEnd"
  /\ last.id[1] \in IdSet(Pre.shapes)
  /\ ShapeOf(Pre.shapes, last.id[1]).type = "line"
  /\ ShapeOf(Pre.shapes, last.id[1]).points = <<0, 0, 10, 50>>
  /\ ShapeOf(shapes, last.id[1]).points = <<10, 50, 20, 100>>

\* no two shapes of collection c carry the same id
UniqueIds(c) == \A i, j \in DOMAIN c : i # j => c[i].id # c[j].id

\* C13: the ids of the live collection are pairwise distinct, and so are the
\* ids inside every snapshot of the undo stack and of the redo stack.
C13_IdUniqueness ==
  /\ UniqueIds(shapes)
  /\ \A k \in DOMAIN history : UniqueIds(history[k])
  /\ \A k \in DOMAIN redoStack : UniqueIds(redoStack[k])

C13_Witness ==
  /\ last.op = "undoLast"
  /\ Len(shapes) = 1
  /\ redoStack # <<>>
  /\ Len(redoStack[1]) = 2
  /\ IdSet(redoStack[1]) = {1, 2}

ToolOps ==
  {"setDrawingType", "setStrokeColor", "setStrokeWidth", "setDashStyle",
   "setFillColor"}

\* C14: a change of the shape kind, stroke color, stroke width, dash style or
\* fill color leaves the live collection, the undo stack and the redo stack as
\* they were; a shape created afterwards carries the configuration current at
\* its creation.
C14_ToolChangeFrame ==
  /\ last.op \in ToolOps =>
       /\ shapes = Pre.shapes
       /\ history = Pre.history
       /\ redoStack = Pre.redoStack
  /\ (last.op = "createShape" /\ last.id # Null) =>
       LET new == shapes[Len(shapes)] IN
       /\ new.id = last.id[1]
       /\ new.stroke = strokeColor
       /\ new.strokeWidth = strokeWidth
       /\ new.dash = dashArray
       /\ new.type = drawingType
       /\ new.type # "line" => new.fill = fillColor

C14_Witness ==
  /\ last.op = "setStrokeColor"
  /\ strokeColor = "#ff0000"
  /\ shapes # <<>>
  /\ \A i \in DOMAIN shapes : shapes[i].stroke = "#000000"
  /\ history # <<>>
  /\ redoStack # <<>>

\* C15: the selection is none exactly when no shape of the live collection has
\* isSelected = TRUE, and otherwise it is the id of the one shape that has; it
\* never names a shape absent from the live collection.
C15_SelectionFunctionOfCollection ==
  /\ (selectedId = Null) <=> (Selected(shapes) = {})
  /\ selectedId # Null =>
       /\ selectedId[1] \in IdSet(shapes)
       /\ \A i \in DOMAIN shapes :
            shapes[i].isSelected <=> (shapes[i].id = selectedId[1])

\* the fields the gesture that ran last hands to updateShape
PatchKeys(type) ==
  IF last.op = "dragEnd"
  THEN IF type = "line" THEN {"points"} ELSE {"x", "y"}
  ELSE IF type = "rectangle" THEN {"x", "y", "width", "height"}
       ELSE {"x", "y", "radius"}

\* C16: a drag or a transform of a shape that is in the collection pushes the
\* collection it found as one undo entry; the shape keeps every field but the
\* geometry fields of the update (its id, type, stroke, strokeWidth, dash,
\* draggable, isSelected and fill among them), every other shape is as it was,
\* and the number and the order of the shapes are as they were.
C16_UpdateGeometryFrame ==
  (last.op \in {"dragEnd", "transformEnd"} /\ last.id[1] \in IdSet(Pre.shapes)) =>
    /\ history = Append(Pre.history, Pre.shapes)
    /\ Len(shapes) = Len(Pre.shapes)
    /\ \A i \in DOMAIN shapes :
         LET new == shapes[i]
             old == Pre.shapes[i]
         IN  /\ new.id = old.id
             /\ new.type = old.type
             /\ IF old.id = last.id[1]
                THEN /\ DOMAIN new = DOMAIN old
                     /\ \A f \in DOMAIN old \ PatchKeys(old.type) : new[f] = old[f]
                ELSE new = old

C16_Witness ==
  /\ last.op = "dragEnd"
  /\ Len(shapes) = 2
  /\ last.id = Some(shapes[1].id)
  /\ shapes[1].x # Pre.shapes[1].x
  /\ shapes[1].isSelected
  /\ shapes[2].type = "line"
  /\ Len(history) = 3

\* C17: a handler that records a snapshot grows the undo stack by one entry;
\* an undo that takes effect moves one entry from the undo stack to the redo
\* stack and a redo that takes effect moves one back, so neither changes the
\* sum of the two lengths; k undos in a row that empty an undo stack of k
\* entries leave the empty collection, and the k redos that follow at once
\* leave the collection the first of the undos found. The undo stack is empty
\* only under the empty collection, so this covers k edits made from the
\* initial state.
C17_StackAccounting ==
  /\ IsEdit => Len(history) = Len(Pre.history) + 1
  /\ (last.op = "undoLast" /\ Pre.history # <<>>) =>
       /\ Len(history) = Len(Pre.history) - 1
       /\ Len(redoStack) = Len(Pre.redoStack) + 1
  /\ (last.op = "redoLast" /\ Pre.redoStack # <<>>) =>
       /\ Len(history) = Len(Pre.history) + 1
       /\ Len(redoStack) = Len(Pre.redoStack) - 1
  /\ last.op \in {"undoLast", "redoLast"} =>
       Len(history) + Len(redoStack) = Len(Pre.history) + Len(Pre.redoStack)
  /\ history = <<>> => shapes = <<>>
  /\ (last.run.stage = 1 /\ last.run.n = last.run.k) =>
       /\ shapes = <<>>
       /\ history = <<>>
  /\ (last.run.stage = 2 /\ last.run.n = last.run.k) =>
       /\ shapes = last.run.F
       /\ Len(history) = last.run.k

C17_Witness ==
  /\ last.op = "redoLast"
  /\ last.run.stage = 2
  /\ last.run.k = 2
  /\ last.run.n = 2
  /\ Len(last.run.F) = 2
  /\ redoStack = <<>>

\* the entries that stack `new` and stack `old` both have are equal
SameBelow(new, old) ==
  \A k \in DOMAIN new \cap DOMAIN old : new[k] = old[k]

\* C18: no handler changes the content of a snapshot that stays on the undo
\* stack or on the redo stack; the entry a handler pushes is the collection it
\* found, and the collection an undo or a redo installs is the entry it pops.
C18_SnapshotImmutability ==
  /\ SameBelow(history, Pre.history)
  /\ SameBelow(redoStack, Pre.redoStack)
  /\ last.op = "handleSelect" =>
       /\ history = Pre.history
       /\ redoStack = Pre.redoStack
  /\ IsEdit => history[Len(history)] = Pre.shapes
  /\ (last.op = "undoLast" /\ Pre.history # <<>>) =>
       /\ shapes = Pre.history[Len(Pre.history)]
       /\ redoStack[Len(redoStack)] = Pre.shapes
  /\ (last.op = "redoLast" /\ Pre.redoStack # <<>>) =>
       /\ shapes = Pre.redoStack[Len(Pre.redoStack)]
       /\ history[Len(history)] = Pre.shapes

C18_Witness ==
  /\ last.op = "handleSelect"
  /\ Len(history) = 2
  /\ \E i \in DOMAIN history[2], j \in DOMAIN shapes :
       /\ history[2][i].id = shapes[j].id
       /\ history[2][i].isSelected # shapes[j].isSelected
  /\ \E i \in DOMAIN history[2] : history[2][i].isSelected

\* C19: a change of the shape kind, an undo and a redo discard the pending line
\* start point, so that the next placement with the line tool starts a new
\* line.
C19_PendingStartDiscarded ==
  last.op \in {"setDrawingType", "undoLast", "redoLast"} => lineStart = Null

\* C20: in the variant without history a drag that ends on shape S moves S,
\* whichever shape is selected and also when none is: a rectangle or a circle
\* gets the reported position, a line is translated so that its first end
\* point is the reported position, S gets no field it did not have, and every
\* other shape is as it was.
C20_DragMovesDraggedShape ==
  last.op = "dragEnd" =>
    LET t == last.pt[1] IN
    /\ Len(shapes) = Len(Pre.shapes)
    /\ \A i \in DOMAIN shapes :
         LET new == shapes[i]
             old == Pre.shapes[i]
         IN  IF old.id = last.id[1]
             THEN /\ DOMAIN new = DOMAIN old
                  /\ old.type # "line" => new.x = t.x /\ new.y = t.y
                  /\ old.type = "line" =>
                       new.points = lineDragPatch(old, t).points
             ELSE new = old

====
